---- MODULE Spec2Model ----
(***************************************************************************)
(* Model of the JNI shim mediapipe_jni.cc: the two result packers          *)
(* (hl_on_result, gr_deliver_result), the runtime-thread bridge            *)
(* (attach_jvm) and the create / submit / close entry points of the hand   *)
(* landmarker and the gesture recognizer.                                  *)
(*                                                                         *)
(* C arrays are functions on 0..n-1.  A float is modelled by the integer   *)
(* it holds (all conversions in the shim are copies or (float) of a small  *)
(* int, which are exact).                                                  *)
(***************************************************************************)
EXTENDS Integers, Sequences, FiniteSets, TLC

(* ------------------------------------------------------------------ *)
(* Bounds of the model                                                 *)
(* ------------------------------------------------------------------ *)
MaxHands == 3          \* hands an engine result may report
MaxLandmarks == 22     \* landmarks a hand may carry (topology is 21)
MaxTs == 2             \* timestamps 1..MaxTs
MaxPending == 1        \* frames the landmarkers hold in flight
MaxCreates == 2        \* create calls (each takes one global reference)
SysLandmarks == 1      \* landmarks per hand in the results of the system model

(* ------------------------------------------------------------------ *)
(* Program constants                                                   *)
(* ------------------------------------------------------------------ *)
HlStride == 64
GrStride == 65
HandCap == 2
LandmarkCap == 21

kMpOk == "kMpOk"
kMpErr == "kMpError"

(* ------------------------------------------------------------------ *)
(* C values                                                            *)
(* ------------------------------------------------------------------ *)
\* const char*: a null pointer or a NUL-terminated string (its characters)
NullStr == [isNull |-> TRUE, chars |-> <<>>]
CStr(cs) == [isNull |-> FALSE, chars |-> cs]
\* name[0] of a non-null string: its first character, or the terminator
CharAt0(name) == IF Len(name.chars) > 0 THEN name.chars[1] ELSE "NUL"

\* (int) of a uint32_t count: values above INT_MAX wrap to u - 2^32
ToInt(u) == IF u > 2147483647 THEN ((u - 2147483647) - 2147483647) - 2 ELSE u

\* a jfloatArray / jobjectArray / jstring local reference, or nullptr
JNull == [kind |-> "null"]
JFloatArray(f) == [kind |-> "jfloatArray", elems |-> f]
JObjectArray(f) == [kind |-> "jobjectArray", elems |-> f]
\* env->NewStringUTF(s): a Java string with the characters of s
NewStringUTF(name) == [kind |-> "jstring", chars |-> name.chars]

\* env->NewFloatArray(n): n elements, all 0.0
NewFloatArray(n) == [k \in 0..(n - 1) |-> 0]
\* env->NewObjectArray(n, cls, nullptr): n elements, all null
NewObjectArray(n) == [k \in 0..(n - 1) |-> JNull]

(* ------------------------------------------------------------------ *)
(* Result packers                                                      *)
(* ------------------------------------------------------------------ *)
\* the stores ws done in order through buf = b: an element holds the value
\* of the last store to its index (else what NewFloatArray put there); a
\* store outside the array corrupts the heap (recorded in oob)
StoreAll(b, ws) ==
    [elems |-> [k \in DOMAIN b.elems |->
                  LET js == { j \in 1..Len(ws) : ws[j].idx = k }
                  IN  IF js = {} THEN b.elems[k]
                      ELSE ws[CHOOSE j \in js : \A j2 \in js : j2 <= j].val],
     oob |-> b.oob \/ \E j \in 1..Len(ws) : ws[j].idx \notin DOMAIN b.elems]

\* numHands = (int)count; if (numHands > 2) numHands = 2;
CapHands_Cap3(count) == IF ToInt(count) > 3 THEN 3 ELSE ToInt(count)
CapHands(count) == IF ToInt(count) > HandCap THEN HandCap ELSE ToInt(count)

\* int arraySize = 1 + numHands * 64 / 1 + numHands * perHand
ArraySize_NoCount(numHands, perHand) == numHands * perHand
ArraySize(numHands, perHand) == 1 + numHands * perHand

\* the handedness block shared by both packers
HandednessValue_NotL(result, h) ==
    IF h < ToInt(result.handedness_count)
       /\ result.handedness[h].categories_count > 0
    THEN LET name == result.handedness[h].categories[0].category_name
         IN  IF CharAt0(name) # "L" THEN 1 ELSE 0
    ELSE 0
HandednessValue(result, h) ==
    IF h < ToInt(result.handedness_count)
       /\ result.handedness[h].categories_count > 0
    THEN LET name == result.handedness[h].categories[0].category_name
         IN  IF ~name.isNull /\ CharAt0(name) = "R" THEN 1 ELSE 0
    ELSE 0

\* the landmark loop: for (i = 0; i < lms->landmarks_count && i < 21; i++)
\* writing at buf[first + i*3 + 0..2]
RECURSIVE LandmarkWrites_Le21(_, _, _, _)
LandmarkWrites_Le21(lms, h, first, i) ==
    IF i < lms.landmarks_count /\ i <= LandmarkCap
    THEN << [h |-> h, idx |-> first + i * 3,     val |-> lms.landmarks[i].x],
            [h |-> h, idx |-> first + i * 3 + 1, val |-> lms.landmarks[i].y],
            [h |-> h, idx |-> first + i * 3 + 2, val |-> lms.landmarks[i].z] >>
         \o LandmarkWrites_Le21(lms, h, first, i + 1)
    ELSE << >>
RECURSIVE LandmarkWrites(_, _, _, _)
LandmarkWrites(lms, h, first, i) ==
    IF i < lms.landmarks_count /\ i < LandmarkCap
    THEN << [h |-> h, idx |-> first + i * 3,     val |-> lms.landmarks[i].x],
            [h |-> h, idx |-> first + i * 3 + 1, val |-> lms.landmarks[i].y],
            [h |-> h, idx |-> first + i * 3 + 2, val |-> lms.landmarks[i].z] >>
         \o LandmarkWrites(lms, h, first, i + 1)
    ELSE << >>

\* the gesture block of gr_deliver_result: (gestureName, gestureScore)
GestureOf(result, h) ==
    IF h < ToInt(result.gestures_count)
       /\ result.gestures[h].categories_count > 0
    THEN [gestureName  |-> result.gestures[h].categories[0].category_name,
          gestureScore |-> result.gestures[h].categories[0].score]
    ELSE [gestureName |-> NullStr, gestureScore |-> 0]

\* body of the hand loop of hl_on_result: the stores into buf, in order
HlHandWrites(result, h) ==
    LET base == 1 + h * HlStride
    IN  << [h |-> h, idx |-> base, val |-> HandednessValue(result, h)] >>
        \o LandmarkWrites(result.hand_landmarks[h], h, base + 1, 0)

RECURSIVE HlLoop(_, _, _)
HlLoop(result, numHands, h) ==
    IF h < numHands
    THEN HlHandWrites(result, h) \o HlLoop(result, numHands, h + 1)
    ELSE << >>

\* result != nullptr && result->hand_landmarks_count > 0
HasHands_Ge0(result) == ~result.isNull /\ result.hand_landmarks_count >= 0
HasHands(result) == ~result.isNull /\ result.hand_landmarks_count > 0

\* the packing part of hl_on_result: jResult and the stores that built it
HlPack(status, result) ==
    IF status = kMpOk /\ HasHands(result)
    THEN LET numHands == CapHands(result.hand_landmarks_count)
             arraySize == ArraySize(numHands, HlStride)
             writes == << [h |-> -1, idx |-> 0, val |-> numHands] >>
                       \o HlLoop(result, numHands, 0)
             b == StoreAll([elems |-> NewFloatArray(arraySize), oob |-> FALSE],
                           writes)
         IN  [jResult |-> JFloatArray(b.elems), jNames |-> JNull,
              writes |-> writes, oob |-> b.oob]
    ELSE [jResult |-> JNull, jNames |-> JNull, writes |-> << >>, oob |-> FALSE]

\* body of the hand loop of gr_deliver_result: stores into buf
GrHandWrites(result, h) ==
    LET base == 1 + h * GrStride
    IN  << [h |-> h, idx |-> base, val |-> HandednessValue(result, h)],
           [h |-> h, idx |-> base + 1, val |-> GestureOf(result, h).gestureScore] >>
        \o LandmarkWrites(result.hand_landmarks[h], h, base + 2, 0)

RECURSIVE GrLoop(_, _, _)
GrLoop(result, numHands, h) ==
    IF h < numHands
    THEN GrHandWrites(result, h) \o GrLoop(result, numHands, h + 1)
    ELSE << >>

\* SetObjectArrayElement(jNames, h, jname) when gestureName != nullptr
NameSlot_Slot0(h) == 0
NameSlot(h) == h

RECURSIVE GrNames(_, _, _, _)
GrNames(names, result, numHands, h) ==
    IF h < numHands
    THEN LET gestureName == GestureOf(result, h).gestureName
             next == IF ~gestureName.isNull
                     THEN [names EXCEPT ![NameSlot(h)] = NewStringUTF(gestureName)]
                     ELSE names
         IN  GrNames(next, result, numHands, h + 1)
    ELSE names

\* the packing part of gr_deliver_result
GrPack(result) ==
    IF HasHands(result)
    THEN LET numHands == CapHands(result.hand_landmarks_count)
             arraySize == ArraySize(numHands, GrStride)
             writes == << [h |-> -1, idx |-> 0, val |-> numHands] >>
                       \o GrLoop(result, numHands, 0)
             b == StoreAll([elems |-> NewFloatArray(arraySize), oob |-> FALSE],
                           writes)
         IN  [jResult |-> JFloatArray(b.elems),
              jNames |-> JObjectArray(GrNames(NewObjectArray(numHands), result,
                                              numHands, 0)),
              writes |-> writes, oob |-> b.oob]
    ELSE [jResult |-> JNull, jNames |-> JNull, writes |-> << >>, oob |-> FALSE]

(* ------------------------------------------------------------------ *)
(* Engine results used as inputs                                       *)
(* ------------------------------------------------------------------ *)
\* coordinates of landmark i of hand h: all different and none 0
Coord(h, i, axis) == 1000 * (h + 1) + 3 * i + axis + 1

Landmarks(h, c) ==
    [landmarks_count |-> c,
     landmarks |-> [i \in 0..(c - 1) |->
                      [x |-> Coord(h, i, 0), y |-> Coord(h, i, 1),
                       z |-> Coord(h, i, 2)]]]

LmCounts == {0, 20, LandmarkCap, MaxLandmarks}

Category(name, score) == [category_name |-> name, score |-> score]
Categories(cats) == [categories_count |-> Len(cats),
                     categories |-> [k \in 0..(Len(cats) - 1) |-> cats[k + 1]]]

Right == CStr(<<"R", "i", "g", "h", "t">>)
Left == CStr(<<"L", "e", "f", "t">>)
ThumbUp == CStr(<<"T", "h", "u", "m", "b", "_", "U", "p">>)
NoneName == CStr(<<"N", "o", "n", "e">>)

HandednessChoices ==
    { Categories(<< >>),
      Categories(<< Category(Right, 9) >>),
      Categories(<< Category(Left, 8) >>),
      Categories(<< Category(CStr(<< >>), 7) >>),
      Categories(<< Category(NullStr, 6) >>),
      Categories(<< Category(Left, 6), Category(Right, 4) >>) }

GestureChoices ==
    { Categories(<< >>),
      Categories(<< Category(ThumbUp, 9) >>),
      Categories(<< Category(NullStr, 5) >>),
      Categories(<< Category(NoneName, 7), Category(ThumbUp, 3) >>) }

NullResult ==
    [isNull |-> TRUE,
     hand_landmarks_count |-> 0, hand_landmarks |-> << >>,
     handedness_count |-> 0, handedness |-> << >>,
     gestures_count |-> 0, gestures |-> << >>]

MkResult(lms, hd, gs) ==
    [isNull |-> FALSE,
     hand_landmarks_count |-> Cardinality(DOMAIN lms), hand_landmarks |-> lms,
     handedness_count |-> Cardinality(DOMAIN hd), handedness |-> hd,
     gestures_count |-> Cardinality(DOMAIN gs), gestures |-> gs]

\* arrays of 0..MaxHands entries: the entries the packers may read (index
\* below the cap) range over all choices, the entries past the cap are rest
ArraysOf(choices, rest) ==
    UNION { { [h \in 0..(n - 1) |-> IF h < HandCap THEN f[h] ELSE rest] :
                f \in [0..(IF n < HandCap THEN n ELSE HandCap) - 1 -> choices] } :
            n \in 0..MaxHands }

\* hand h of a result carries its own coordinates
HandArrays == ArraysOf(LmCounts, LandmarkCap)
HandsOf(cs) == [h \in DOMAIN cs |-> Landmarks(h, cs[h])]
HandednessArrays ==
    ArraysOf(HandednessChoices, Categories(<< Category(Right, 9) >>))
GestureArrays ==
    ArraysOf(GestureChoices, Categories(<< Category(ThumbUp, 9) >>))

\* the usual engine output for n hands: one category per hand
DefaultHandedness(n) ==
    [h \in 0..(n - 1) |-> Categories(<< Category(Right, 9) >>)]
DefaultGestures(n) ==
    [h \in 0..(n - 1) |-> Categories(<< Category(ThumbUp, 9) >>)]
NoCategories == << >>

\* inputs of the packers: every hand array with every handedness array,
\* and (gesture variant) every hand array with every gesture array
HlInputs ==
    { [variant |-> "hl", status |-> kMpOk,
       result |-> MkResult(HandsOf(cs), hd, NoCategories)] :
         cs \in HandArrays, hd \in HandednessArrays }
    \cup
    { [variant |-> "hl", status |-> kMpErr,
       result |-> MkResult(HandsOf(cs), DefaultHandedness(Cardinality(DOMAIN cs)),
                           NoCategories)] : cs \in HandArrays }
    \cup
    { [variant |-> "hl", status |-> st, result |-> NullResult] :
         st \in {kMpOk, kMpErr} }
GrInputs ==
    { [variant |-> "gr", status |-> kMpOk,
       result |-> MkResult(HandsOf(cs), hd,
                           DefaultGestures(Cardinality(DOMAIN cs)))] :
         cs \in HandArrays, hd \in HandednessArrays }
    \cup
    { [variant |-> "gr", status |-> kMpOk,
       result |-> MkResult(HandsOf(cs),
                           DefaultHandedness(Cardinality(DOMAIN cs)), gs)] :
         cs \in HandArrays, gs \in GestureArrays }
    \cup
    { [variant |-> "gr", status |-> kMpOk, result |-> NullResult] }
PackInputs == HlInputs \cup GrInputs

NoInput == [variant |-> "none", status |-> kMpOk, result |-> NullResult]
NoPack == [variant |-> "none", jResult |-> JNull, jNames |-> JNull,
           writes |-> << >>, oob |-> FALSE]
WithVariant(v, p) ==
    [variant |-> v, jResult |-> p.jResult, jNames |-> p.jNames,
     writes |-> p.writes, oob |-> p.oob]

(* ------------------------------------------------------------------ *)
(* Managed runtime: callback objects, classes, method ids, global refs *)
(* ------------------------------------------------------------------ *)
HlSig == "([FJ)V"
GrSig == "([F[Ljava/lang/String;J)V"

\* callback objects the managed side may pass to a create call
Objects == {"cbA", "cbB", "cbG"}
ClassOf(o) == CASE o = "cbA" -> "LandmarkListener"
                [] o = "cbB" -> "DualListener"
                [] o = "cbG" -> "GestureListener"
\* the onResult overloads a class declares
MethodsOf(cls) == CASE cls = "LandmarkListener" -> {HlSig}
                    [] cls = "DualListener" -> {HlSig, GrSig}
                    [] cls = "GestureListener" -> {GrSig}

NullMethod == [cls |-> "null", sig |-> "null"]
\* env->GetMethodID(cls, "onResult", sig)
GetMethodID(cls, sig) ==
    IF sig \in MethodsOf(cls) THEN [cls |-> cls, sig |-> sig] ELSE NullMethod

\* the table of JNI global references: reference r is refs[r]; 0 is nullptr.
\* A deleted reference no longer refers to its object.
NewGlobalRef(refs, obj) == Append(refs, [obj |-> obj, deletes |-> 0])
DeleteGlobalRef(refs, r) ==
    [refs EXCEPT ![r] = [obj |-> "deleted", deletes |-> @.deletes + 1]]

\* if (g_xx_callback != nullptr) DeleteGlobalRef(g_xx_callback);
\* g_xx_callback = NewGlobalRef(callback);
Register_KeepOld(refs, old, callback) == NewGlobalRef(refs, callback)
Register(refs, old, callback) ==
    NewGlobalRef(IF old # 0 THEN DeleteGlobalRef(refs, old) ELSE refs, callback)

(* ------------------------------------------------------------------ *)
(* Engine-owned threads and attach_jvm                                 *)
(* ------------------------------------------------------------------ *)
Threads == {"worker", "hosted"}
\* "hosted" is a thread the host already attached to the runtime
InitAttached == [t \in Threads |-> t = "hosted"]

\* outcomes of g_jvm->GetEnv on a thread
GetEnvResults(isAttached) ==
    IF isAttached THEN {"JNI_OK", "JNI_EVERSION"} ELSE {"JNI_EDETACHED"}

\* attach_jvm: env (nullptr = FALSE), *needs_detach, and whether the thread
\* is attached afterwards
AttachJvm_NoFlag(isAttached, getEnv, attachOk) ==
    IF getEnv = "JNI_EDETACHED"
    THEN IF ~attachOk
         THEN [env |-> FALSE, needs_detach |-> 0, attached |-> isAttached,
               attaches |-> 1]
         ELSE [env |-> TRUE, needs_detach |-> 0, attached |-> TRUE,
               attaches |-> 1]
    ELSE IF getEnv # "JNI_OK"
    THEN [env |-> FALSE, needs_detach |-> 0, attached |-> isAttached,
          attaches |-> 0]
    ELSE [env |-> TRUE, needs_detach |-> 0, attached |-> isAttached,
          attaches |-> 0]
AttachJvm(isAttached, getEnv, attachOk) ==
    IF getEnv = "JNI_EDETACHED"
    THEN IF ~attachOk
         THEN [env |-> FALSE, needs_detach |-> 0, attached |-> isAttached,
               attaches |-> 1]
         ELSE [env |-> TRUE, needs_detach |-> 1, attached |-> TRUE,
               attaches |-> 1]
    ELSE IF getEnv # "JNI_OK"
    THEN [env |-> FALSE, needs_detach |-> 0, attached |-> isAttached,
          attaches |-> 0]
    ELSE [env |-> TRUE, needs_detach |-> 0, attached |-> isAttached,
          attaches |-> 0]

(* ------------------------------------------------------------------ *)
(* Engine                                                              *)
(* ------------------------------------------------------------------ *)
\* results the engine produces in the system model: no hand, or one hand
SysHands == {0, 1}
SysResult(n) ==
    MkResult([h \in 0..(n - 1) |-> Landmarks(h, SysLandmarks)],
             DefaultHandedness(n), DefaultGestures(n))
\* what a landmarker reports to its result callback: a result, or an error
\* with no result
HlReports ==
    { [status |-> kMpOk, result |-> SysResult(n)] : n \in SysHands }
    \cup { [status |-> kMpErr, result |-> NullResult] }
\* what a recognize call returns: a result, or an error
GrReports ==
    { [status |-> kMpOk, result |-> SysResult(n)] : n \in SysHands }
    \cup { [status |-> kMpErr, result |-> SysResult(0)] }

\* 32-bit int arithmetic (two's complement wrap-around)
MaxInt == 2147483647
MinInt == -2147483647 - 1
WrapAdd(a, b) ==
    IF a > 0 /\ b > 0 /\ a > MaxInt - b
    THEN ((a - MaxInt) - 1) + ((b - MaxInt) - 1)
    ELSE IF a < 0 /\ b < 0 /\ a < MinInt - b
    THEN ((a + MaxInt) + 1) + ((b + MaxInt) + 1)
    ELSE a + b
\* a * b for b >= 0: the product when it fits, else by doubling
RECURSIVE Doubling(_, _)
Doubling(a, b) ==
    IF b = 0 THEN 0
    ELSE WrapAdd(Doubling(WrapAdd(a, a), b \div 2),
                 IF b % 2 = 1 THEN a ELSE 0)
WrapMul(a, b) ==
    IF a = 0 \/ b = 0 THEN 0
    ELSE IF a > 0 /\ a <= MaxInt \div b THEN a * b
    ELSE Doubling(a, b)

\* a frame as the managed side passes it: jint width, jint height and the
\* jbyteArray pixelData, of which only the length matters here
Frame(w, h, n) == [width |-> w, height |-> h, length |-> n]
NoFrame == Frame(0, 0, 0)
\* a 2x2 frame with its 12 bytes, a 2x2 frame one byte short, and a frame
\* whose width * height * 3 does not fit an int
Frames == { Frame(2, 2, 12), Frame(2, 2, 11), Frame(32768, 32768, 12) }
\* the frame the managed side submits in the system model
SysFrames == { Frame(2, 2, 12) }
\* int dataSize = width * height * 3;
DataSize(f) == WrapMul(WrapMul(f.width, f.height), 3)
\* what MpImageCreateFromUint8Data(format, width, height, pixels, dataSize)
\* can do: reject the frame; build an image, copying dataSize bytes from
\* pixels; or fault while reading past the end of pixels. It builds no
\* image from a size that is not positive.
ImageOutcomes(f, dataSize) ==
    {"rejected"}
    \cup (IF dataSize > 0 THEN {"ok"} ELSE {})
    \cup (IF dataSize > 0 /\ f.length < dataSize THEN {"fault"} ELSE {})
\* bytes the engine read from pixels
BytesRead(img, dataSize) == IF img = "rejected" THEN 0 ELSE dataSize

\* the options the create calls set: options.running_mode and
\* options.result_callback
HlOptions == [running_mode |-> "LIVE_STREAM", result_callback |-> "hl_on_result"]
GrOptions_LiveStream ==
    [running_mode |-> "LIVE_STREAM", result_callback |-> "hl_on_result"]
GrOptions == [running_mode |-> "VIDEO", result_callback |-> "none"]

\* an engine instance pointer is live when the engine created it and has
\* not closed it; 0 is the null handle
Live(engine, handle) ==
    handle \in 1..Len(engine) /\ engine[handle] = "active"
\* what an engine entry point can do with a pointer that is not live
\* (null or released): fault, or come back with an error status
DeadHandleOutcomes == {"crash", "error"}
\* what CallVoidMethod does with a null receiver or a null method id
NullCallOutcomes == {"sigsegv", "abort"}

VARIABLES input, packed,
          g_jvm, g_hl_callback, g_hl_onResult, g_gr_callback, g_gr_onResult,
          globalRefs, hlEngine, grEngine, pending, attached, crashed, last,
          race

pvars == << input, packed >>
gvars == << g_jvm, g_hl_callback, g_hl_onResult, g_gr_callback, g_gr_onResult,
            globalRefs >>
svars == << g_jvm, g_hl_callback, g_hl_onResult, g_gr_callback, g_gr_onResult,
            globalRefs, hlEngine, grEngine, pending, attached, crashed, last,
            race >>
vars == << input, packed, g_jvm, g_hl_callback, g_hl_onResult, g_gr_callback,
           g_gr_onResult, globalRefs, hlEngine, grEngine, pending, attached,
           crashed, last, race >>

\* record of the last entry into the shim
NoCall ==
    [op |-> "none", handle |-> 0, ts |-> 0, ret |-> 0, threw |-> FALSE,
     returned |-> TRUE,
     invocations |-> << >>, engineCalls |-> << >>,
     image |-> "none", allocated |-> FALSE,
     frame |-> NoFrame, bytesRead |-> 0,
     thread |-> "none", status |-> kMpOk, hands |-> 0, absent |-> FALSE,
     entryAttached |-> FALSE, exitAttached |-> FALSE,
     env |-> FALSE, attaches |-> 0, detaches |-> 0]

\* hl_on_result on an engine thread and nativeCreateLandmarker /
\* nativeCloseLandmarker on the managed caller's thread share
\* g_hl_callback and g_hl_onResult with no lock: each access is a step, and
\* the steps of the two threads interleave. race.hl is where the engine
\* thread is inside hl_on_result, race.mut where the caller's thread is
\* inside a create or a close.
RaceIdle ==
    [hl |-> "idle", mut |-> "idle", entry |-> NoCall,
     rep |-> [status |-> kMpOk, result |-> NullResult],
     needs_detach |-> 0, loaded |-> "none", cb |-> 0, mid |-> NullMethod,
     callback |-> "none", engineOk |-> TRUE, handle |-> 0, outcome |-> "ok"]

\* state when the process starts: statics are nullptr
SysInit ==
    /\ g_jvm = "null"
    /\ g_hl_callback = 0
    /\ g_hl_onResult = NullMethod
    /\ g_gr_callback = 0
    /\ g_gr_onResult = NullMethod
    /\ globalRefs = << >>
    /\ hlEngine = << >>
    /\ grEngine = << >>
    /\ pending = << >>
    /\ attached = InitAttached
    /\ crashed = "no"
    /\ last = NoCall
    /\ race = RaceIdle

Init == /\ SysInit
        /\ input = NoInput
        /\ packed = NoPack

PackInit == /\ SysInit
            /\ input \in PackInputs
            /\ packed = NoPack

\* hl_on_result's packer applied to the input
PackLandmarks ==
    /\ input.variant = "hl"
    /\ packed.variant = "none"
    /\ packed' = WithVariant("hl", HlPack(input.status, input.result))
    /\ UNCHANGED << input, svars >>

\* gr_deliver_result's packer applied to the input
PackGestures ==
    /\ input.variant = "gr"
    /\ packed.variant = "none"
    /\ packed' = WithVariant("gr", GrPack(input.result))
    /\ UNCHANGED << input, svars >>

PackNext == PackLandmarks \/ PackGestures
SpecPack == PackInit /\ [][PackNext]_vars

(* ------------------------------------------------------------------ *)
(* Entry points                                                        *)
(* ------------------------------------------------------------------ *)
\* the managed runtime loads the library before it binds a native method
Loaded == g_jvm # "null"
Running == crashed = "no"

\* JNI_OnLoad
JNI_OnLoad ==
    /\ Running
    /\ g_jvm = "null"
    /\ g_jvm' = "vm"
    /\ last' = [NoCall EXCEPT !.op = "JNI_OnLoad"]
    /\ UNCHANGED << race, input, packed, g_hl_callback, g_hl_onResult, g_gr_callback,
                    g_gr_onResult, globalRefs, hlEngine, grEngine, pending,
                    attached, crashed >>

\* env->CallVoidMethod(cb, mid, ...) is defined when neither is null
CallDefined(cb, mid) == cb # 0 /\ mid # NullMethod

\* one run of the managed callback
Invocation(cb, mid, p, ts, t) ==
    [ref |-> cb, obj |-> globalRefs[cb].obj, deletes |-> globalRefs[cb].deletes,
     method |-> mid, jResult |-> p.jResult, jNames |-> p.jNames,
     ts |-> ts, thread |-> t]

\* if (g_jvm == nullptr || g_hl_callback == nullptr) return;
HlIdle_JvmOnly(jvm, cb) == jvm = "null"
HlIdle(jvm, cb) == jvm = "null" \/ cb = 0

\* hl_on_result, run by landmarker h on its thread t for a frame in flight;
\* rep and ts are the status, result and timestamp the engine passes
HlOnResult(h, ts, t, rep, getEnv, attachOk) ==
    /\ Running
    /\ h \in 1..Len(pending) /\ pending[h] > 0
    /\ getEnv \in GetEnvResults(attached[t])
    /\ getEnv # "JNI_EDETACHED" => attachOk
    /\ pending' = [pending EXCEPT ![h] = @ - 1]
    /\ LET entry == [NoCall EXCEPT !.op = "hl_on_result", !.handle = h,
                       !.ts = ts, !.thread = t, !.status = rep.status,
                       !.hands = rep.result.hand_landmarks_count,
                       !.absent = rep.result.isNull,
                       !.entryAttached = attached[t],
                       !.exitAttached = attached[t]]
       IN  IF HlIdle(g_jvm, g_hl_callback)
           THEN /\ last' = entry
                /\ UNCHANGED << attached, crashed >>
           ELSE LET a == AttachJvm(attached[t], getEnv, attachOk)
                    p == HlPack(rep.status, rep.result)
                    afterAttach == [entry EXCEPT !.attaches = a.attaches,
                                                 !.env = a.env,
                                                 !.exitAttached = a.attached]
                IN  IF ~a.env
                    THEN /\ last' = afterAttach
                         /\ attached' = [attached EXCEPT ![t] = a.attached]
                         /\ UNCHANGED crashed
                    ELSE IF ~CallDefined(g_hl_callback, g_hl_onResult)
                    THEN /\ crashed' \in NullCallOutcomes
                         /\ attached' = [attached EXCEPT ![t] = a.attached]
                         /\ last' = [afterAttach EXCEPT
                                       !.returned = FALSE,
                                       !.allocated = p.jResult.kind # "null"]
                    ELSE /\ attached' =
                              [attached EXCEPT
                                 ![t] = IF a.needs_detach # 0 THEN FALSE
                                        ELSE a.attached]
                         /\ last' = [afterAttach EXCEPT
                                       !.allocated = p.jResult.kind # "null",
                                       !.invocations =
                                          << Invocation(g_hl_callback,
                                                        g_hl_onResult, p, ts, t) >>,
                                       !.detaches = IF a.needs_detach # 0
                                                    THEN 1 ELSE 0,
                                       !.exitAttached =
                                          IF a.needs_detach # 0 THEN FALSE
                                          ELSE a.attached]
                         /\ UNCHANGED crashed
    /\ UNCHANGED << race, input, packed, gvars, hlEngine, grEngine >>

\* nativeCreateLandmarker(modelPath, callback); engineOk: the engine accepts
\* the model and the options
CreateLandmarker(callback, engineOk) ==
    /\ Running /\ Loaded
    /\ Len(globalRefs) < MaxCreates
    /\ LET refs == Register(globalRefs, g_hl_callback, callback)
           mid == GetMethodID(ClassOf(callback), HlSig)
           entry == [NoCall EXCEPT !.op = "nativeCreateLandmarker"]
       IN  /\ globalRefs' = refs
           /\ g_hl_callback' = Len(refs)
           /\ g_hl_onResult' = mid
           /\ IF mid = NullMethod
              THEN /\ last' = [entry EXCEPT !.threw = TRUE, !.ret = 0]
                   /\ UNCHANGED << hlEngine, pending >>
              ELSE IF ~engineOk
              THEN /\ last' = [entry EXCEPT
                                 !.threw = TRUE, !.ret = 0,
                                 !.engineCalls =
                                    << [fn |-> "MpHandLandmarkerCreate",
                                        mode |-> HlOptions.running_mode,
                                        result_callback |-> HlOptions.result_callback,
                                        live |-> TRUE] >>]
                   /\ UNCHANGED << hlEngine, pending >>
              ELSE /\ hlEngine' = Append(hlEngine, "active")
                   /\ pending' = Append(pending, 0)
                   /\ last' = [entry EXCEPT
                                 !.ret = Len(hlEngine) + 1,
                                 !.handle = Len(hlEngine) + 1,
                                 !.engineCalls =
                                    << [fn |-> "MpHandLandmarkerCreate",
                                        mode |-> HlOptions.running_mode,
                                        result_callback |-> HlOptions.result_callback,
                                        live |-> TRUE] >>]
    /\ UNCHANGED << race, input, packed, g_jvm, g_gr_callback, g_gr_onResult,
                    grEngine, attached, crashed >>

\* the engine calls of one frame: the inference is called once, and a
\* failure is not retried
Attempts_Retry(call) == call \o call
Attempts(call) == call

\* frames the landmarkers hold in flight: pending[h] for landmarker h
RECURSIVE SumTo(_, _)
SumTo(f, n) == IF n = 0 THEN 0 ELSE f[n] + SumTo(f, n - 1)
InFlight(p) == SumTo(p, Len(p))

\* nativeDetectAsync(landmarkerPtr, pixels, w, h, timestampMs) with frame f;
\* img: what the engine's image constructor did; outcome: what DetectAsync
\* did
DetectAsync(handle, ts, f, img, outcome) ==
    /\ Running /\ Loaded
    /\ handle \in 0..Len(hlEngine)
    /\ LET dataSize == DataSize(f)
           entry == [NoCall EXCEPT !.op = "nativeDetectAsync",
                                   !.handle = handle, !.ts = ts,
                                   !.frame = f,
                                   !.bytesRead = BytesRead(img, dataSize)]
           call == << [fn |-> "MpHandLandmarkerDetectAsync",
                       mode |-> HlOptions.running_mode, result_callback |-> HlOptions.result_callback,
                       live |-> Live(hlEngine, handle)] >>
       IN  /\ img \in ImageOutcomes(f, dataSize)
           /\ IF img = "fault"
              THEN /\ outcome = "crash"
                   /\ crashed' = "crash"
                   /\ last' = [entry EXCEPT !.returned = FALSE]
                   /\ UNCHANGED pending
              ELSE IF img = "rejected"
              THEN /\ outcome = "error"
                   /\ last' = entry
                   /\ UNCHANGED << pending, crashed >>
              ELSE /\ outcome \in (IF Live(hlEngine, handle) THEN {"ok", "error"}
                                   ELSE DeadHandleOutcomes)
                   /\ CASE outcome = "ok" ->
                             /\ InFlight(pending) < MaxPending
                             /\ pending' = [pending EXCEPT ![handle] = @ + 1]
                             /\ last' = [entry EXCEPT !.engineCalls = call,
                                                      !.image = "engine"]
                             /\ UNCHANGED crashed
                        [] outcome = "error" ->
                             /\ last' = [entry EXCEPT
                                           !.engineCalls = Attempts(call),
                                           !.image = "freed"]
                             /\ UNCHANGED << pending, crashed >>
                        [] outcome = "crash" ->
                             /\ crashed' = "crash"
                             /\ last' = [entry EXCEPT !.engineCalls = call,
                                                      !.image = "bridge",
                                                      !.returned = FALSE]
                             /\ UNCHANGED pending
    /\ UNCHANGED << race, input, packed, gvars, hlEngine, grEngine, attached >>

\* nativeCloseLandmarker(landmarkerPtr); outcome: what the engine's close did
CloseLandmarker(handle, outcome) ==
    /\ Running /\ Loaded
    /\ handle \in 0..Len(hlEngine)
    /\ outcome \in (IF Live(hlEngine, handle) THEN {"ok"} ELSE DeadHandleOutcomes)
    /\ LET entry == [NoCall EXCEPT
                       !.op = "nativeCloseLandmarker", !.handle = handle,
                       !.engineCalls =
                          << [fn |-> "MpHandLandmarkerClose",
                              mode |-> HlOptions.running_mode,
                              result_callback |-> HlOptions.result_callback,
                              live |-> Live(hlEngine, handle)] >>]
       IN  IF outcome = "crash"
           THEN /\ crashed' = "crash"
                /\ last' = [entry EXCEPT !.returned = FALSE]
                /\ UNCHANGED << g_hl_callback, g_hl_onResult, globalRefs,
                                hlEngine, pending >>
           ELSE /\ hlEngine' = IF outcome = "ok"
                               THEN [hlEngine EXCEPT ![handle] = "closed"]
                               ELSE hlEngine
                /\ pending' = IF outcome = "ok"
                              THEN [pending EXCEPT ![handle] = 0]
                              ELSE pending
                /\ IF g_hl_callback # 0
                   THEN /\ globalRefs' = DeleteGlobalRef(globalRefs, g_hl_callback)
                        /\ g_hl_callback' = 0
                        /\ g_hl_onResult' = NullMethod
                   ELSE UNCHANGED << g_hl_callback, g_hl_onResult, globalRefs >>
                /\ last' = entry
                /\ UNCHANGED crashed
    /\ UNCHANGED << race, input, packed, g_jvm, g_gr_callback, g_gr_onResult,
                    grEngine, attached >>

JNI_FALSE == 0
JNI_TRUE == 1

\* nativeCreateGestureRecognizer(modelPath, numHands, callback)
CreateGestureRecognizer(callback, numHands, engineOk) ==
    /\ Running /\ Loaded
    /\ Len(globalRefs) < MaxCreates
    /\ LET refs == Register(globalRefs, g_gr_callback, callback)
           mid == GetMethodID(ClassOf(callback), GrSig)
           entry == [NoCall EXCEPT !.op = "nativeCreateGestureRecognizer"]
           call == << [fn |-> "MpGestureRecognizerCreate", mode |-> GrOptions.running_mode,
                       result_callback |-> GrOptions.result_callback, live |-> TRUE] >>
       IN  /\ globalRefs' = refs
           /\ g_gr_callback' = Len(refs)
           /\ g_gr_onResult' = mid
           /\ IF mid = NullMethod
              THEN /\ last' = [entry EXCEPT !.threw = TRUE, !.ret = 0]
                   /\ UNCHANGED grEngine
              ELSE IF ~engineOk
              THEN /\ last' = [entry EXCEPT !.threw = TRUE, !.ret = 0,
                                            !.engineCalls = call,
                                            !.hands = numHands]
                   /\ UNCHANGED grEngine
              ELSE /\ grEngine' = Append(grEngine, "active")
                   /\ last' = [entry EXCEPT !.ret = Len(grEngine) + 1,
                                            !.handle = Len(grEngine) + 1,
                                            !.engineCalls = call,
                                            !.hands = numHands]
    /\ UNCHANGED << race, input, packed, g_jvm, g_hl_callback, g_hl_onResult,
                    hlEngine, pending, attached, crashed >>

\* if (status != kMpOk) return JNI_FALSE; else { gr_deliver_result(...);
\* return JNI_TRUE; }
DeliversOn_Always(status) == TRUE
DeliversOn(status) == status = kMpOk
RecognizeReturn(status) == IF status # kMpOk THEN JNI_FALSE ELSE JNI_TRUE

\* the native image after the recognize call returned status: a successful
\* call consumed it; after a failed one nothing releases it
ImageAfterRecognize(status) ==
    IF status = kMpOk THEN "engine" ELSE "orphaned"

\* nativeRecognizeGestureForVideo(recognizerPtr, pixels, w, h, timestampMs)
\* with frame f on the caller's thread; img: what the engine's image
\* constructor did; rep: what the engine's recognize returned on a live
\* instance; outcome: what it did
RecognizeGestureForVideo(handle, ts, f, img, rep, outcome) ==
    /\ Running /\ Loaded
    /\ handle \in 0..Len(grEngine)
    /\ LET dataSize == DataSize(f)
           entry == [NoCall EXCEPT !.op = "nativeRecognizeGestureForVideo",
                                   !.handle = handle, !.ts = ts,
                                   !.frame = f,
                                   !.bytesRead = BytesRead(img, dataSize),
                                   !.thread = "caller", !.env = TRUE,
                                   !.entryAttached = TRUE,
                                   !.exitAttached = TRUE]
           call == << [fn |-> "MpGestureRecognizerRecognizeForVideo",
                       mode |-> GrOptions.running_mode, result_callback |-> GrOptions.result_callback,
                       live |-> Live(grEngine, handle)] >>
           p == GrPack(rep.result)
           called == [entry EXCEPT !.engineCalls = Attempts(call),
                                   !.image = ImageAfterRecognize(rep.status),
                                   !.status = rep.status,
                                   !.hands = rep.result.hand_landmarks_count]
       IN  /\ img \in ImageOutcomes(f, dataSize)
           /\ IF img = "fault"
              THEN /\ outcome = "crash" /\ rep.status = kMpErr
                   /\ crashed' = "crash"
                   /\ last' = [entry EXCEPT !.returned = FALSE,
                                            !.status = kMpErr]
              ELSE IF img = "rejected"
              THEN /\ outcome = "error" /\ rep.status = kMpErr
                   /\ last' = [entry EXCEPT !.ret = JNI_FALSE, !.status = kMpErr]
                   /\ UNCHANGED crashed
              ELSE /\ outcome \in (IF Live(grEngine, handle)
                                   THEN (IF rep.status = kMpOk THEN {"ok"}
                                         ELSE {"error"})
                                   ELSE DeadHandleOutcomes)
                   /\ outcome # "ok" => rep.status = kMpErr
                   /\ IF outcome = "crash"
                      THEN /\ crashed' = "crash"
                           /\ last' = [called EXCEPT !.returned = FALSE,
                                                     !.image = "bridge"]
                      ELSE IF ~DeliversOn(rep.status)
                      THEN /\ last' = [called EXCEPT
                                         !.ret = RecognizeReturn(rep.status)]
                           /\ UNCHANGED crashed
                      ELSE IF ~CallDefined(g_gr_callback, g_gr_onResult)
                      THEN /\ crashed' \in NullCallOutcomes
                           /\ last' = [called EXCEPT
                                         !.returned = FALSE,
                                         !.allocated = p.jResult.kind # "null"]
                      ELSE /\ last' = [called EXCEPT
                                         !.ret = RecognizeReturn(rep.status),
                                         !.allocated = p.jResult.kind # "null",
                                         !.invocations =
                                            << Invocation(g_gr_callback,
                                                          g_gr_onResult, p, ts,
                                                          "caller") >>]
                           /\ UNCHANGED crashed
    /\ UNCHANGED << race, input, packed, gvars, hlEngine, grEngine, pending, attached >>

\* nativeCloseGestureRecognizer(recognizerPtr)
CloseGestureRecognizer(handle, outcome) ==
    /\ Running /\ Loaded
    /\ handle \in 0..Len(grEngine)
    /\ outcome \in (IF Live(grEngine, handle) THEN {"ok"} ELSE DeadHandleOutcomes)
    /\ LET entry == [NoCall EXCEPT
                       !.op = "nativeCloseGestureRecognizer", !.handle = handle,
                       !.engineCalls =
                          << [fn |-> "MpGestureRecognizerClose", mode |-> GrOptions.running_mode,
                              result_callback |-> GrOptions.result_callback,
                              live |-> Live(grEngine, handle)] >>]
       IN  IF outcome = "crash"
           THEN /\ crashed' = "crash"
                /\ last' = [entry EXCEPT !.returned = FALSE]
                /\ UNCHANGED << g_gr_callback, g_gr_onResult, globalRefs,
                                grEngine >>
           ELSE /\ grEngine' = IF outcome = "ok"
                               THEN [grEngine EXCEPT ![handle] = "closed"]
                               ELSE grEngine
                /\ IF g_gr_callback # 0
                   THEN /\ globalRefs' = DeleteGlobalRef(globalRefs, g_gr_callback)
                        /\ g_gr_callback' = 0
                        /\ g_gr_onResult' = NullMethod
                   ELSE UNCHANGED << g_gr_callback, g_gr_onResult, globalRefs >>
                /\ last' = entry
                /\ UNCHANGED crashed
    /\ UNCHANGED << race, input, packed, g_jvm, g_hl_callback, g_hl_onResult,
                    hlEngine, pending, attached >>

Timestamps == 1..MaxTs
\* the timestamp of a submitted frame goes to the engine and nowhere else;
\* the one a result carries is the engine's argument to hl_on_result
SubmitTs == 1
Outcomes == {"ok", "error", "crash"}

Next ==
    \/ JNI_OnLoad
    \/ \E cb \in Objects, ok \in BOOLEAN : CreateLandmarker(cb, ok)
    \/ \E h \in 0..MaxCreates, f \in SysFrames :
          \E img \in ImageOutcomes(f, DataSize(f)), o \in Outcomes :
             DetectAsync(h, SubmitTs, f, img, o)
    \/ \E h \in 1..MaxCreates, ts \in Timestamps, t \in Threads,
          rep \in HlReports, ge \in {"JNI_OK", "JNI_EVERSION", "JNI_EDETACHED"},
          ok \in BOOLEAN : HlOnResult(h, ts, t, rep, ge, ok)
    \/ \E h \in 0..MaxCreates, o \in Outcomes : CloseLandmarker(h, o)
    \/ \E cb \in Objects, ok \in BOOLEAN :
          CreateGestureRecognizer(cb, HandCap, ok)
    \/ \E h \in 0..MaxCreates, ts \in Timestamps, f \in SysFrames :
          \E img \in ImageOutcomes(f, DataSize(f)), rep \in GrReports,
             o \in Outcomes : RecognizeGestureForVideo(h, ts, f, img, rep, o)
    \/ \E h \in 0..MaxCreates, o \in Outcomes : CloseGestureRecognizer(h, o)

Spec == Init /\ [][Next]_vars

\* the frame entry points on every frame of Frames, after the creates
FrameNext ==
    \/ JNI_OnLoad
    \/ \E cb \in Objects, ok \in BOOLEAN : CreateLandmarker(cb, ok)
    \/ \E cb \in Objects, ok \in BOOLEAN :
          CreateGestureRecognizer(cb, HandCap, ok)
    \/ \E h \in 0..MaxCreates, f \in Frames :
          \E img \in ImageOutcomes(f, DataSize(f)), o \in Outcomes :
             DetectAsync(h, SubmitTs, f, img, o)
    \/ \E h \in 0..MaxCreates, f \in Frames :
          \E img \in ImageOutcomes(f, DataSize(f)), rep \in GrReports,
             o \in Outcomes : RecognizeGestureForVideo(h, 1, f, img, rep, o)
    \/ \E h \in 1..MaxCreates, t \in Threads, rep \in HlReports,
          ge \in {"JNI_OK", "JNI_EDETACHED"} :
             HlOnResult(h, 1, t, rep, ge, TRUE)
SpecFrame == Init /\ [][FrameNext]_vars

(* ------------------------------------------------------------------ *)
(* Unsynchronised access to the landmark callback statics              *)
(* ------------------------------------------------------------------ *)

\* what CallVoidMethod does with a global reference that was deleted, or
\* with a method id of a class other than the receiver's: the runtime
\* aborts, or the call goes through on whatever is there
MisuseOutcomes == {"abort", "no"}

\* line 70 on engine thread t, for a frame landmarker h held in flight
HlEnter(h, ts, t, rep) ==
    /\ Running
    /\ race.hl = "idle"
    /\ h \in 1..Len(pending) /\ pending[h] > 0
    /\ pending' = [pending EXCEPT ![h] = @ - 1]
    /\ LET entry == [NoCall EXCEPT !.op = "hl_on_result", !.handle = h,
                       !.ts = ts, !.thread = t, !.status = rep.status,
                       !.hands = rep.result.hand_landmarks_count,
                       !.absent = rep.result.isNull,
                       !.entryAttached = attached[t],
                       !.exitAttached = attached[t]]
       IN  IF HlIdle(g_jvm, g_hl_callback)
           THEN /\ last' = entry
                /\ UNCHANGED race
           ELSE /\ race' = [race EXCEPT !.hl = "attach", !.entry = entry,
                                        !.rep = rep]
                /\ UNCHANGED last
    /\ UNCHANGED << input, packed, gvars, hlEngine, grEngine, attached,
                    crashed >>

\* lines 72-110: attach_jvm, then the packing (local to the thread)
HlAttach(getEnv, attachOk) ==
    /\ Running
    /\ race.hl = "attach"
    /\ LET t == race.entry.thread
           a == AttachJvm(attached[t], getEnv, attachOk)
           afterAttach == [race.entry EXCEPT !.attaches = a.attaches,
                                             !.env = a.env,
                                             !.exitAttached = a.attached]
       IN  /\ getEnv \in GetEnvResults(attached[t])
           /\ getEnv # "JNI_EDETACHED" => attachOk
           /\ attached' = [attached EXCEPT ![t] = a.attached]
           /\ IF ~a.env
              THEN /\ last' = afterAttach
                   /\ race' = [race EXCEPT !.hl = "idle", !.entry = NoCall,
                                           !.rep = RaceIdle.rep]
              ELSE /\ race' = [race EXCEPT !.hl = "call",
                                           !.entry = afterAttach,
                                           !.needs_detach = a.needs_detach]
                   /\ UNCHANGED last
    /\ UNCHANGED << input, packed, gvars, hlEngine, grEngine, pending,
                    crashed >>

\* line 112: the first of the two argument loads, g_hl_callback or
\* g_hl_onResult (their order is unspecified)
HlLoad(first) ==
    /\ Running
    /\ race.hl = "call" /\ race.loaded = "none"
    /\ first \in {"cb", "mid"}
    /\ race' = [race EXCEPT !.loaded = first,
                            !.cb = IF first = "cb" THEN g_hl_callback ELSE @,
                            !.mid = IF first = "mid" THEN g_hl_onResult ELSE @]
    /\ UNCHANGED << input, packed, gvars, hlEngine, grEngine, pending,
                    attached, crashed, last >>

\* lines 112-116: the second load, CallVoidMethod, and the detach
HlInvoke(misuse) ==
    /\ Running
    /\ race.hl = "call" /\ race.loaded # "none"
    /\ LET cb == IF race.loaded = "cb" THEN race.cb ELSE g_hl_callback
           mid == IF race.loaded = "mid" THEN race.mid ELSE g_hl_onResult
           t == race.entry.thread
           p == HlPack(race.rep.status, race.rep.result)
           detached == IF race.needs_detach # 0 THEN FALSE ELSE attached[t]
           done == [race.entry EXCEPT
                      !.allocated = p.jResult.kind # "null",
                      !.invocations =
                         << Invocation(cb, mid, p, race.entry.ts, t) >>,
                      !.detaches = IF race.needs_detach # 0 THEN 1 ELSE 0,
                      !.exitAttached = detached]
           held == globalRefs[cb].deletes = 0
           paired == held /\ mid.cls = ClassOf(globalRefs[cb].obj)
       IN  IF ~CallDefined(cb, mid)
           THEN /\ misuse = "abort"
                /\ crashed' \in NullCallOutcomes
                /\ last' = [race.entry EXCEPT
                              !.returned = FALSE,
                              !.allocated = p.jResult.kind # "null"]
                /\ UNCHANGED attached
           ELSE IF ~paired /\ misuse = "abort"
           THEN /\ crashed' = "abort"
                /\ last' = [race.entry EXCEPT
                              !.returned = FALSE,
                              !.allocated = p.jResult.kind # "null"]
                /\ UNCHANGED attached
           ELSE /\ misuse = "no"
                /\ last' = done
                /\ attached' = [attached EXCEPT ![t] = detached]
                /\ UNCHANGED crashed
    /\ race' = [race EXCEPT !.hl = "idle", !.entry = NoCall,
                            !.rep = RaceIdle.rep, !.needs_detach = 0,
                            !.loaded = "none", !.cb = 0, !.mid = NullMethod]
    /\ UNCHANGED << input, packed, gvars, hlEngine, grEngine, pending >>

\* nativeCreateLandmarker, lines 216-218:
\* if (g_hl_callback != nullptr) DeleteGlobalRef(g_hl_callback);
CreateDeleteOld(callback, engineOk) ==
    /\ Running /\ Loaded
    /\ race.mut = "idle"
    /\ Len(globalRefs) < MaxCreates
    /\ globalRefs' = IF g_hl_callback # 0
                     THEN DeleteGlobalRef(globalRefs, g_hl_callback)
                     ELSE globalRefs
    /\ race' = [race EXCEPT !.mut = "newref", !.callback = callback,
                            !.engineOk = engineOk]
    /\ UNCHANGED << input, packed, g_jvm, g_hl_callback, g_hl_onResult,
                    g_gr_callback, g_gr_onResult, hlEngine, grEngine,
                    pending, attached, crashed, last >>

\* line 219: g_hl_callback = env->NewGlobalRef(callback);
CreateNewRef ==
    /\ Running
    /\ race.mut = "newref"
    /\ globalRefs' = NewGlobalRef(globalRefs, race.callback)
    /\ g_hl_callback' = Len(globalRefs) + 1
    /\ race' = [race EXCEPT !.mut = "method"]
    /\ UNCHANGED << input, packed, g_jvm, g_hl_onResult, g_gr_callback,
                    g_gr_onResult, hlEngine, grEngine, pending, attached,
                    crashed, last >>

\* lines 221-255: g_hl_onResult = GetMethodID(...), then the rest of the
\* create, which touches no shared static
CreateMethod ==
    /\ Running
    /\ race.mut = "method"
    /\ LET mid == GetMethodID(ClassOf(race.callback), HlSig)
           entry == [NoCall EXCEPT !.op = "nativeCreateLandmarker"]
           call == << [fn |-> "MpHandLandmarkerCreate",
                       mode |-> HlOptions.running_mode,
                       result_callback |-> HlOptions.result_callback, live |-> TRUE] >>
       IN  /\ g_hl_onResult' = mid
           /\ IF mid = NullMethod
              THEN /\ last' = [entry EXCEPT !.threw = TRUE, !.ret = 0]
                   /\ UNCHANGED << hlEngine, pending >>
              ELSE IF ~race.engineOk
              THEN /\ last' = [entry EXCEPT !.threw = TRUE, !.ret = 0,
                                            !.engineCalls = call]
                   /\ UNCHANGED << hlEngine, pending >>
              ELSE /\ hlEngine' = Append(hlEngine, "active")
                   /\ pending' = Append(pending, 0)
                   /\ last' = [entry EXCEPT !.ret = Len(hlEngine) + 1,
                                            !.handle = Len(hlEngine) + 1,
                                            !.engineCalls = call]
    /\ race' = [race EXCEPT !.mut = "idle", !.callback = "none",
                            !.engineOk = TRUE]
    /\ UNCHANGED << input, packed, g_jvm, g_hl_callback, g_gr_callback,
                    g_gr_onResult, globalRefs, grEngine, attached, crashed >>

\* nativeCloseLandmarker, lines 294-300: the engine's close and the test of
\* g_hl_callback
CloseEngine(handle, outcome) ==
    /\ Running /\ Loaded
    /\ race.mut = "idle"
    /\ handle \in 0..Len(hlEngine)
    /\ outcome \in (IF Live(hlEngine, handle) THEN {"ok"} ELSE DeadHandleOutcomes)
    /\ LET entry == [NoCall EXCEPT
                       !.op = "nativeCloseLandmarker", !.handle = handle,
                       !.engineCalls =
                          << [fn |-> "MpHandLandmarkerClose",
                              mode |-> HlOptions.running_mode,
                              result_callback |-> HlOptions.result_callback,
                              live |-> Live(hlEngine, handle)] >>]
       IN  IF outcome = "crash"
           THEN /\ crashed' = "crash"
                /\ last' = [entry EXCEPT !.returned = FALSE]
                /\ UNCHANGED << hlEngine, pending, race >>
           ELSE /\ hlEngine' = IF outcome = "ok"
                               THEN [hlEngine EXCEPT ![handle] = "closed"]
                               ELSE hlEngine
                /\ pending' = IF outcome = "ok"
                              THEN [pending EXCEPT ![handle] = 0]
                              ELSE pending
                /\ IF g_hl_callback # 0
                   THEN /\ race' = [race EXCEPT !.mut = "delete",
                                                !.handle = handle,
                                                !.outcome = outcome]
                        /\ UNCHANGED last
                   ELSE /\ last' = entry
                        /\ UNCHANGED race
                /\ UNCHANGED crashed
    /\ UNCHANGED << input, packed, gvars, grEngine, attached >>

\* line 301: env->DeleteGlobalRef(g_hl_callback);
CloseDeleteRef ==
    /\ Running
    /\ race.mut = "delete"
    /\ globalRefs' = DeleteGlobalRef(globalRefs, g_hl_callback)
    /\ race' = [race EXCEPT !.mut = "nullcb"]
    /\ UNCHANGED << input, packed, g_jvm, g_hl_callback, g_hl_onResult,
                    g_gr_callback, g_gr_onResult, hlEngine, grEngine,
                    pending, attached, crashed, last >>

\* line 302: g_hl_callback = nullptr;
CloseNullCallback ==
    /\ Running
    /\ race.mut = "nullcb"
    /\ g_hl_callback' = 0
    /\ race' = [race EXCEPT !.mut = "nullmid"]
    /\ UNCHANGED << input, packed, g_jvm, g_hl_onResult, g_gr_callback,
                    g_gr_onResult, globalRefs, hlEngine, grEngine, pending,
                    attached, crashed, last >>

\* line 303: g_hl_onResult = nullptr; and the return
CloseNullMethod ==
    /\ Running
    /\ race.mut = "nullmid"
    /\ g_hl_onResult' = NullMethod
    /\ last' = [NoCall EXCEPT
                  !.op = "nativeCloseLandmarker", !.handle = race.handle,
                  !.engineCalls =
                     << [fn |-> "MpHandLandmarkerClose",
                         mode |-> HlOptions.running_mode,
                         result_callback |-> HlOptions.result_callback,
                         live |-> race.outcome = "ok"] >>]
    /\ race' = [race EXCEPT !.mut = "idle", !.handle = 0, !.outcome = "ok"]
    /\ UNCHANGED << input, packed, g_jvm, g_hl_callback, g_gr_callback,
                    g_gr_onResult, globalRefs, hlEngine, grEngine, pending,
                    attached, crashed >>

\* callbacks whose class declares the landmark method
HlObjects == { o \in Objects : HlSig \in MethodsOf(ClassOf(o)) }

\* the caller's thread creates, submits and closes; the engine thread
\* delivers; the creates are given well-shaped callbacks and a model the
\* engine accepts
RaceNext ==
    \/ JNI_OnLoad
    \/ \E cb \in HlObjects : CreateDeleteOld(cb, TRUE)
    \/ CreateNewRef
    \/ CreateMethod
    \/ \E h \in 1..MaxCreates, f \in SysFrames :
          /\ race.mut = "idle"
          /\ Live(hlEngine, h)
          /\ DetectAsync(h, SubmitTs, f, "ok", "ok")
    \/ \E h \in 1..MaxCreates : Live(hlEngine, h) /\ CloseEngine(h, "ok")
    \/ CloseDeleteRef
    \/ CloseNullCallback
    \/ CloseNullMethod
    \/ \E h \in 1..MaxCreates, ts \in Timestamps, t \in Threads,
          rep \in HlReports : HlEnter(h, ts, t, rep)
    \/ \E ge \in {"JNI_OK", "JNI_EVERSION", "JNI_EDETACHED"}, ok \in BOOLEAN :
          HlAttach(ge, ok)
    \/ \E first \in {"cb", "mid"} : HlLoad(first)
    \/ \E m \in MisuseOutcomes : HlInvoke(m)
SpecRace == Init /\ [][RaceNext]_vars

(* ------------------------------------------------------------------ *)
(* Properties of the packers (checked under SpecPack)                  *)
(* ------------------------------------------------------------------ *)
Packed == packed.variant # "none"
Built == Packed /\ packed.jResult.kind = "jfloatArray"
Buf == packed.jResult.elems
InResult == input.result
InCount == input.result.hand_landmarks_count
\* the engine result carries at least one hand
InHasHand == input.status = kMpOk /\ ~InResult.isNull /\ InCount >= 1
StrideOf == IF packed.variant = "hl" THEN 64 ELSE 65
\* slots of a hand before its landmarks: handedness (and score)
HeadOf == IF packed.variant = "hl" THEN 1 ELSE 2
\* the hands the packer stored something for
PackedHands == { packed.writes[j].h : j \in 1..Len(packed.writes) } \ { -1 }
WritesOf(h) == { j \in 1..Len(packed.writes) : packed.writes[j].h = h }
Least(a, b) == IF a < b THEN a ELSE b

\* C1: for a result with at least one hand, both packers hand over a buffer
\* of length exactly 1 + n*stride whose element 0 is n, n being the number
\* of hands packed, and n <= 2.
C1_BufferLength ==
    (Packed /\ InHasHand) =>
        LET n == Cardinality(PackedHands)
        IN  /\ Built
            /\ n >= 1 /\ n <= 2
            /\ PackedHands = 0..(n - 1)
            /\ DOMAIN Buf = 0..(n * StrideOf)
            /\ Cardinality(DOMAIN Buf) = 1 + n * StrideOf
            /\ Buf[0] = n

\* a two-hand gesture buffer of 131 floats and a one-hand landmark buffer
\* of 65 floats have been produced
C1_Witness ==
    /\ Built /\ InHasHand
    /\ \/ packed.variant = "gr" /\ InCount = 2 /\ DOMAIN Buf = 0..130 /\ Buf[0] = 2
       \/ packed.variant = "hl" /\ InCount = 1 /\ DOMAIN Buf = 0..64 /\ Buf[0] = 1

\* C2: for every packed hand h and every landmark i < min(count, 21), x, y,
\* z sit unchanged at base + k + 3i, +1, +2 (base = 1 + h*stride, k = 1 or
\* 2); landmarks from index 21 on are never written, no store leaves hand
\* h's stride or the buffer, and the slots of missing landmarks stay 0.
C2_LandmarkLayout ==
    Built =>
      /\ ~packed.oob
      /\ \A h \in PackedHands :
           LET base == 1 + h * StrideOf
               lms == InResult.hand_landmarks[h]
               m == Least(lms.landmarks_count, 21)
           IN  /\ \A i \in 0..(m - 1) :
                     /\ Buf[base + HeadOf + 3 * i] = lms.landmarks[i].x
                     /\ Buf[base + HeadOf + 3 * i + 1] = lms.landmarks[i].y
                     /\ Buf[base + HeadOf + 3 * i + 2] = lms.landmarks[i].z
               /\ \A i \in m..20 : \A a \in 0..2 :
                     Buf[base + HeadOf + 3 * i + a] = 0
               /\ \A j \in WritesOf(h) :
                     /\ packed.writes[j].idx \in base..(base + StrideOf - 1)
                     /\ packed.writes[j].idx \in DOMAIN Buf
               /\ Cardinality(WritesOf(h)) = HeadOf + 3 * m
               /\ \A i \in 21..(lms.landmarks_count - 1) :
                     \A k \in DOMAIN Buf :
                        Buf[k] \notin { lms.landmarks[i].x, lms.landmarks[i].y,
                                        lms.landmarks[i].z }

\* two hands packed by the landmark packer, the first with 22 landmarks
\* (one dropped, its last kept landmark in the last slots of its stride),
\* the second with 20 (its last three slots still 0)
C2_Witness ==
    /\ Built /\ packed.variant = "hl" /\ InCount = 2
    /\ InResult.hand_landmarks[0].landmarks_count = 22
    /\ InResult.hand_landmarks[1].landmarks_count = 20
    /\ Buf[1 + 1 + 60] = InResult.hand_landmarks[0].landmarks[20].x
    /\ Buf[1 + 1 + 62] = InResult.hand_landmarks[0].landmarks[20].z
    /\ Buf[65 + 1 + 57] = InResult.hand_landmarks[1].landmarks[19].x
    /\ Buf[65 + 1 + 60] = 0 /\ Buf[128] = 0

\* the first handedness label of hand h starts with 'R'
LabelStartsWithR(h) ==
    /\ h < InResult.handedness_count
    /\ InResult.handedness[h].categories_count > 0
    /\ ~InResult.handedness[h].categories[0].category_name.isNull
    /\ Len(InResult.handedness[h].categories[0].category_name.chars) > 0
    /\ InResult.handedness[h].categories[0].category_name.chars[1] = "R"

\* C3: the handedness slot of a packed hand is exactly 1.0 when the hand has
\* a first handedness category whose label starts with 'R' and exactly 0.0
\* otherwise (other first character, empty or null label, no category, or
\* h >= handedness_count).
C3_Handedness ==
    Built =>
      \A h \in PackedHands :
         Buf[1 + h * StrideOf] = (IF LabelStartsWithR(h) THEN 1 ELSE 0)

\* two hands packed by the gesture packer: "Right" gives 1.0 for hand 0, a
\* null label gives 0.0 for hand 1
C3_Witness ==
    /\ Built /\ packed.variant = "gr" /\ InCount = 2
    /\ InResult.handedness_count = 2
    /\ LabelStartsWithR(0) /\ Buf[1] = 1
    /\ InResult.handedness[1].categories_count = 1
    /\ InResult.handedness[1].categories[0].category_name.isNull
    /\ Buf[66] = 0

\* C4: for a result reporting more than 2 hands both packers pack exactly
\* the first 2 hands in engine order, set buffer[0] to 2, drop the others
\* without a fault, and (gesture variant) produce a label array of length 2.
C4_Truncation ==
    (Packed /\ InHasHand /\ InCount > 2) =>
      /\ Built
      /\ Buf[0] = 2
      /\ PackedHands = {0, 1}
      /\ DOMAIN Buf = 0..(2 * StrideOf)
      /\ ~packed.oob
      /\ \A h \in {0, 1} :
           InResult.hand_landmarks[h].landmarks_count > 0 =>
             Buf[1 + h * StrideOf + HeadOf] = InResult.hand_landmarks[h].landmarks[0].x
      /\ \A h \in 2..(InCount - 1) :
           \A i \in 0..(InResult.hand_landmarks[h].landmarks_count - 1) :
             \A k \in DOMAIN Buf :
                Buf[k] # InResult.hand_landmarks[h].landmarks[i].x
      /\ packed.variant = "gr" =>
           /\ packed.jNames.kind = "jobjectArray"
           /\ DOMAIN packed.jNames.elems = 0..1

\* a result of three hands went through the gesture packer
C4_Witness ==
    /\ Built /\ packed.variant = "gr" /\ InCount = 3
    /\ Buf[0] = 2 /\ DOMAIN packed.jNames.elems = 0..1

\* the engine reports a gesture category for hand h
HasGesture(h) ==
    /\ h < InResult.gestures_count
    /\ InResult.gestures[h].categories_count > 0

\* C6: in the gesture packer the label array has one slot per packed hand;
\* for a packed hand h with a gesture category the score slot
\* buffer[1 + h*65 + 1] holds that category's score and label slot h holds
\* that category's name (null when the engine gave the category no name);
\* without a category the score slot is 0.0 and label slot h is null.  No
\* label sits at another hand's index.
C6_GestureLabels ==
    (Built /\ packed.variant = "gr") =>
      /\ packed.jNames.kind = "jobjectArray"
      /\ DOMAIN packed.jNames.elems = 0..(Cardinality(PackedHands) - 1)
      /\ \A h \in PackedHands :
           LET slot == packed.jNames.elems[h]
           IN  IF HasGesture(h)
               THEN LET cat == InResult.gestures[h].categories[0]
                    IN  /\ Buf[1 + h * 65 + 1] = cat.score
                        /\ IF cat.category_name.isNull
                           THEN slot.kind = "null"
                           ELSE /\ slot.kind = "jstring"
                                /\ slot.chars = cat.category_name.chars
               ELSE /\ Buf[1 + h * 65 + 1] = 0
                    /\ slot.kind = "null"

\* two hands, no gesture category for hand 0, "Thumb_Up" for hand 1: slot 0
\* is null and slot 1 carries the name
C6_Witness ==
    /\ Built /\ packed.variant = "gr" /\ InCount = 2
    /\ InResult.gestures_count = 2
    /\ ~HasGesture(0) /\ HasGesture(1)
    /\ packed.jNames.elems[0].kind = "null"
    /\ packed.jNames.elems[1].kind = "jstring"
    /\ packed.jNames.elems[1].chars = ThumbUp.chars
    /\ Buf[2] = 0 /\ Buf[67] = 9

(* ------------------------------------------------------------------ *)
(* Properties of the bridge (checked under Spec)                       *)
(* ------------------------------------------------------------------ *)
IsNotify == last.op = "hl_on_result"
IsRecognize == last.op = "nativeRecognizeGestureForVideo"
\* the engine's recognize was reached by the last recognize call, on a
\* live recognizer
EngineRan == Len(last.engineCalls) = 1 /\ last.engineCalls[1].live
\* the result of the last delivery has nothing to pack
NothingToPack == last.status # kMpOk \/ last.absent \/ last.hands = 0
\* a callback is registered with its resolved method
HlRegistered == CallDefined(g_hl_callback, g_hl_onResult)
GrRegistered == CallDefined(g_gr_callback, g_gr_onResult)
NullDelivery(inv) == inv.jResult.kind = "null" /\ inv.jNames.kind = "null"
\* no callback run ever received an empty buffer
NoEmptyBuffer ==
    \A k \in 1..Len(last.invocations) :
       last.invocations[k].jResult.kind # "null" =>
          Cardinality(DOMAIN last.invocations[k].jResult.elems) > 1

\* C5 as stated: on both delivery paths, whenever the result reports zero
\* hands, is absent, or the engine invocation failed, the registered
\* callback is invoked with a null buffer (and null label array) and the
\* timestamp, and an empty buffer is never delivered.
C5_NullMarkerOnBothPaths ==
    /\ (IsNotify /\ HlRegistered /\ last.env /\ NothingToPack) =>
          /\ Len(last.invocations) = 1
          /\ NullDelivery(last.invocations[1])
          /\ last.invocations[1].ts = last.ts
    /\ (IsRecognize /\ GrRegistered /\ EngineRan /\ last.returned
          /\ NothingToPack) =>
          /\ Len(last.invocations) = 1
          /\ NullDelivery(last.invocations[1])
          /\ last.invocations[1].ts = last.ts
    /\ NoEmptyBuffer

\* C5 amended: on the landmark path a result with zero hands, an absent
\* result or a failed status makes the registered callback run once with a
\* null buffer and the timestamp; on the gesture path a successful
\* recognition of zero hands makes it run once with a null buffer, a null
\* label array and the timestamp, while a failed recognition runs no
\* callback at all; an empty buffer is never delivered.
C5_NullMarker ==
    /\ (IsNotify /\ HlRegistered /\ last.env /\ NothingToPack) =>
          /\ Len(last.invocations) = 1
          /\ NullDelivery(last.invocations[1])
          /\ last.invocations[1].ts = last.ts
          /\ ~last.allocated
    /\ (IsRecognize /\ GrRegistered /\ EngineRan /\ last.returned
          /\ last.status = kMpOk /\ last.hands = 0) =>
          /\ Len(last.invocations) = 1
          /\ NullDelivery(last.invocations[1])
          /\ last.invocations[1].ts = last.ts
          /\ ~last.allocated
    /\ (IsRecognize /\ last.status # kMpOk) =>
          /\ Len(last.invocations) = 0
          /\ ~last.allocated
          /\ last.returned => last.ret = JNI_FALSE
    /\ NoEmptyBuffer

\* a failed notification reached the landmark callback as null, and (other
\* disjunct) a zero-hand recognition reached the gesture callback as null
C5_Witness ==
    \/ /\ IsNotify /\ last.status = kMpErr /\ last.absent
       /\ Len(last.invocations) = 1
       /\ last.invocations[1].jResult.kind = "null"
       /\ last.invocations[1].ts = last.ts /\ last.ts = 2
    \/ /\ IsRecognize /\ last.status = kMpOk /\ last.hands = 0
       /\ Len(last.invocations) = 1
       /\ NullDelivery(last.invocations[1])

\* C7: a recognize call that returns success has run the registered
\* callback exactly once, with the call's timestamp, before returning; a
\* recognize call that returns failure has run it zero times.
C7_RecognizeDelivery ==
    (IsRecognize /\ last.returned) =>
       /\ last.ret \in {JNI_TRUE, JNI_FALSE}
       /\ last.ret = JNI_TRUE =>
             /\ Len(last.invocations) = 1
             /\ last.invocations[1].ts = last.ts
             /\ last.invocations[1].ref = g_gr_callback
             /\ last.invocations[1].thread = "caller"
             /\ last.status = kMpOk
       /\ last.ret = JNI_FALSE =>
             /\ Len(last.invocations) = 0
             /\ ~last.allocated

\* a successful recognize with timestamp 2 delivered a packed buffer, and
\* (other disjunct) an engine failure returned JNI_FALSE
C7_Witness ==
    /\ IsRecognize /\ last.returned /\ EngineRan
    /\ last.ret = JNI_TRUE /\ last.ts = 2 /\ last.hands > 0
    /\ Len(last.invocations) = 1
    /\ last.invocations[1].jResult.kind = "jfloatArray"

\* C8: when hl_on_result returns, the thread's attachment to the runtime is
\* what it was on entry: a thread the bridge attached is detached again on
\* every exit path, a thread attached on entry is never detached.
C8_AttachRestored ==
    (IsNotify /\ last.returned) =>
       /\ last.exitAttached = last.entryAttached
       /\ attached[last.thread] = last.entryAttached
       /\ last.entryAttached => (last.attaches = 0 /\ last.detaches = 0)
       /\ (~last.entryAttached /\ last.env) =>
             (last.attaches = 1 /\ last.detaches = 1)
       /\ ~last.env => last.detaches = 0

\* a detached engine thread was attached for a null-result delivery and is
\* detached again
C8_Witness ==
    /\ IsNotify /\ last.returned /\ last.thread = "worker"
    /\ ~last.entryAttached /\ last.env
    /\ last.attaches = 1 /\ last.detaches = 1
    /\ Len(last.invocations) = 1
    /\ last.invocations[1].jResult.kind = "null"
    /\ ~attached["worker"]

\* C9: a result notification that finds no landmark callback registered (or
\* no runtime reference) is a silent no-op: no callback runs, the thread is
\* neither attached nor detached, no buffer is allocated, nothing faults.
C9_SilentNoOp ==
    (IsNotify /\ (g_jvm = "null" \/ g_hl_callback = 0)) =>
       /\ Len(last.invocations) = 0
       /\ last.attaches = 0 /\ last.detaches = 0
       /\ ~last.env
       /\ ~last.allocated
       /\ last.returned /\ crashed = "no" /\ ~last.threw
       /\ attached = InitAttached

\* a result with hands arrived on the detached worker thread after the
\* callback was cleared
C9_Witness ==
    /\ IsNotify /\ g_hl_callback = 0 /\ Loaded
    /\ last.status = kMpOk /\ last.hands > 0 /\ last.thread = "worker"
    /\ last.returned

\* C10: after a create call replaced the callback of a kind, every delivery
\* of that kind runs the callback now registered, with the method resolved
\* from that callback's class; a replaced callback is never run again and
\* its reference was released exactly once.
C10_OnlyNewCallback ==
    /\ \A k \in 1..Len(last.invocations) :
          LET inv == last.invocations[k]
              sig == IF IsNotify THEN HlSig ELSE GrSig
          IN  /\ inv.ref = (IF IsNotify THEN g_hl_callback ELSE g_gr_callback)
              /\ inv.ref \in DOMAIN globalRefs
              /\ globalRefs[inv.ref].deletes = 0 /\ inv.deletes = 0
              /\ inv.obj = globalRefs[inv.ref].obj
              /\ inv.method = [cls |-> ClassOf(inv.obj), sig |-> sig]
              /\ sig \in MethodsOf(ClassOf(inv.obj))
    /\ \A r \in DOMAIN globalRefs :
          IF r \in {g_hl_callback, g_gr_callback}
          THEN globalRefs[r].deletes = 0
          ELSE globalRefs[r].deletes = 1
    /\ g_hl_callback # 0 => g_hl_callback # g_gr_callback

\* landmarker 2 was created with cbB while landmarker 1 was Active; a result
\* of landmarker 1 then ran cbB through DualListener's method, and the
\* reference landmarker 1 was created with is released once
C10_Witness ==
    /\ IsNotify /\ last.handle = 1 /\ Len(last.invocations) = 1
    /\ Len(hlEngine) = 2 /\ hlEngine[1] = "active"
    /\ globalRefs[1].obj = "deleted" /\ globalRefs[1].deletes = 1
    /\ last.invocations[1].ref = 2 /\ last.invocations[1].obj = "cbB"
    /\ last.invocations[1].method = [cls |-> "DualListener", sig |-> HlSig]

(* ------------------------------------------------------------------ *)
(* Lifetimes of handles, images and registrations (checked under Spec) *)
(* ------------------------------------------------------------------ *)
IsCloseHl == last.op = "nativeCloseLandmarker"
IsCloseGr == last.op = "nativeCloseGestureRecognizer"
\* the engine instances of the kind the last entry was about
EngineOfLast ==
    IF last.op \in {"nativeCloseLandmarker", "nativeDetectAsync",
                    "nativeCreateLandmarker", "hl_on_result"}
    THEN hlEngine ELSE grEngine
\* the last entry was given the handle of a session closed before the entry
OnClosedHandle ==
    /\ last.handle \in 1..Len(EngineOfLast)
    /\ EngineOfLast[last.handle] = "closed"
    /\ Len(last.engineCalls) > 0 => ~last.engineCalls[1].live
\* the last entry passed a pointer to the engine that was not a live instance
DeadPointerPassed ==
    \E k \in 1..Len(last.engineCalls) : ~last.engineCalls[k].live

\* C11: the second close of a session (either kind) with the same handle is
\* a no-op: it does not pass the released handle to the engine, it does not
\* fault, and no callback reference is released a second time.
C11_SecondCloseNoOp ==
    /\ ((IsCloseHl \/ IsCloseGr) /\ OnClosedHandle) =>
          /\ ~DeadPointerPassed
          /\ last.returned /\ crashed = "no"
    /\ \A r \in DOMAIN globalRefs : globalRefs[r].deletes <= 1

IsDetect == last.op = "nativeDetectAsync"
IsSubmit == IsDetect \/ IsRecognize
\* the handle of the last entry is not an Active session of its kind: it is
\* 0, or the handle of a Closed session
OnDeadHandle == ~Live(EngineOfLast, last.handle)

\* C12: a frame submission (detectAsync or recognizeForVideo) on a handle
\* that is Closed or invalid (0 included) is a no-op or returns failure: the
\* engine is never invoked on a released or invalid instance, the call does
\* not fault, and no callback is delivered for the frame.
C12_DeadHandleSubmit ==
    (IsSubmit /\ OnDeadHandle) =>
       /\ ~DeadPointerPassed
       /\ last.returned /\ crashed = "no"
       /\ Len(last.invocations) = 0
       /\ IsRecognize => last.ret = JNI_FALSE

\* C13: a native image created by a frame submission to an Active session
\* has exactly one owner outcome on both paths once the submission has
\* returned: the engine owns it after a successful invocation, the bridge
\* released it (once) after a failed one; it is never left with neither.
C13_ImageOwned ==
    (IsSubmit /\ last.returned /\ ~OnDeadHandle) =>
       /\ last.image \in {"none", "engine", "freed"}
       /\ last.image = "none" <=> Len(last.engineCalls) = 0
       /\ (IsRecognize /\ last.image # "none") =>
             (last.image = "engine" <=> last.status = kMpOk)

(* ------------------------------------------------------------------ *)
(* Frame Adapter (checked under SpecFrame)                             *)
(* ------------------------------------------------------------------ *)
\* width * height * 3 does not fit a 32-bit signed integer
Overflows(f) ==
    /\ f.width > 0 /\ f.height > 0
    /\ \/ f.width > MaxInt \div f.height
       \/ f.width * f.height > MaxInt \div 3
\* the pixel buffer holds fewer than width * height * 3 bytes, or that
\* product overflows or is not positive
TooShort(f) ==
    \/ Overflows(f)
    \/ f.width * f.height * 3 <= 0
    \/ f.length < f.width * f.height * 3

\* C14: a frame submitted to an Active session whose pixel buffer is shorter
\* than width*height*3 (or whose width*height*3 overflows an int or is not
\* positive) is rejected: the engine reads no width*height*3 bytes from the
\* buffer, no inference is invoked, no image is retained, nothing faults.
C14_SizeValidated ==
    (IsSubmit /\ ~OnDeadHandle /\ TooShort(last.frame)) =>
       /\ last.bytesRead <= last.frame.length
       /\ Len(last.engineCalls) = 0
       /\ last.image = "none"
       /\ last.returned /\ crashed = "no"

\* the step is a create call that returned no handle
FailedCreateStep ==
    /\ last'.op \in {"nativeCreateLandmarker", "nativeCreateGestureRecognizer"}
    /\ last'.ret = 0

\* C15: a create call that fails (callback shape mismatch, or the engine
\* rejecting the configuration) raises an error, returns 0, creates no
\* session and leaves the callback registrations as they were before the
\* call: the rejected callback is not held and the callback registered
\* earlier is still registered with its method.
C15_FailedCreateKeepsRegistration ==
    [][FailedCreateStep =>
          /\ last'.threw
          /\ UNCHANGED << hlEngine, grEngine >>
          /\ UNCHANGED << g_hl_callback, g_hl_onResult, g_gr_callback,
                          g_gr_onResult, globalRefs >>]_vars

(* ------------------------------------------------------------------ *)
(* Delivery against create and close (checked under SpecRace)          *)
(* ------------------------------------------------------------------ *)
\* C16: under every interleaving of hl_on_result with a create/replace or
\* a close of the landmark callback on another thread, the delivery is a
\* no-op or runs a callback reference still held at the moment of the call
\* with the method resolved for that callback: it never uses a released
\* reference, never pairs a callback with a null or another callback's
\* method, and does not fault.
C16_DeliveryUsesHeldPair ==
    IsNotify =>
       /\ last.returned /\ crashed = "no"
       /\ \A k \in 1..Len(last.invocations) :
             LET inv == last.invocations[k]
             IN  /\ inv.ref # 0
                 /\ inv.deletes = 0 /\ inv.obj # "deleted"
                 /\ inv.method # NullMethod
                 /\ inv.method = [cls |-> ClassOf(inv.obj), sig |-> HlSig]

(* ------------------------------------------------------------------ *)
(* Sessions side by side (checked under Spec)                          *)
(* ------------------------------------------------------------------ *)
\* the step closes an Active landmarker (recognizer) while another one is
\* Active
ClosesOneOfTwoHl ==
    /\ last'.op = "nativeCloseLandmarker"
    /\ Live(hlEngine, last'.handle)
    /\ \E k \in 1..Len(hlEngine) : k # last'.handle /\ Live(hlEngine, k)
ClosesOneOfTwoGr ==
    /\ last'.op = "nativeCloseGestureRecognizer"
    /\ Live(grEngine, last'.handle)
    /\ \E k \in 1..Len(grEngine) : k # last'.handle /\ Live(grEngine, k)

\* C17: closing one session releases that session's engine instance and
\* nothing of any other Active session: a close of one kind leaves the
\* other kind's callback registered, and while another session of the same
\* kind is Active the callback its results are delivered to stays
\* registered with its method.
C17_CloseLeavesOthers ==
    [][/\ last'.op = "nativeCloseLandmarker" =>
             UNCHANGED << g_gr_callback, g_gr_onResult, grEngine >>
       /\ last'.op = "nativeCloseGestureRecognizer" =>
             UNCHANGED << g_hl_callback, g_hl_onResult, hlEngine >>
       /\ ClosesOneOfTwoHl =>
             /\ UNCHANGED << g_hl_callback, g_hl_onResult >>
             /\ \A k \in 1..Len(hlEngine) :
                   k # last'.handle => hlEngine'[k] = hlEngine[k]
       /\ ClosesOneOfTwoGr =>
             /\ UNCHANGED << g_gr_callback, g_gr_onResult >>
             /\ \A k \in 1..Len(grEngine) :
                   k # last'.handle => grEngine'[k] = grEngine[k]]_vars

(* ------------------------------------------------------------------ *)
(* Running modes (checked under Spec)                                  *)
(* ------------------------------------------------------------------ *)
\* the last entry ran the callback registered for gestures (landmarks)
RanGestureCallback ==
    \E k \in 1..Len(last.invocations) : last.invocations[k].method.sig = GrSig
RanLandmarkCallback ==
    \E k \in 1..Len(last.invocations) : last.invocations[k].method.sig = HlSig

\* C18: every gesture session is created in the synchronous mode with no
\* engine result callback and every landmark session in the asynchronous
\* mode with hl_on_result; the gesture callback runs only on the caller's
\* thread inside a recognize call, with no attach or detach, and the
\* landmark callback runs only from hl_on_result.
C18_ModesKept ==
    /\ \A k \in 1..Len(last.engineCalls) :
          LET call == last.engineCalls[k]
          IN  /\ call.fn \in {"MpGestureRecognizerCreate",
                              "MpGestureRecognizerRecognizeForVideo",
                              "MpGestureRecognizerClose"} =>
                    (call.mode = "VIDEO" /\ call.result_callback = "none")
              /\ call.fn \in {"MpHandLandmarkerCreate",
                              "MpHandLandmarkerDetectAsync",
                              "MpHandLandmarkerClose"} =>
                    (call.mode = "LIVE_STREAM"
                       /\ call.result_callback = "hl_on_result")
    /\ RanGestureCallback =>
          /\ IsRecognize
          /\ \A k \in 1..Len(last.invocations) :
                /\ last.invocations[k].thread = "caller"
                /\ last.invocations[k].ref = g_gr_callback
          /\ last.thread = "caller"
          /\ last.attaches = 0 /\ last.detaches = 0
          /\ attached = InitAttached
    /\ RanLandmarkCallback =>
          /\ IsNotify
          /\ \A k \in 1..Len(last.invocations) :
                /\ last.invocations[k].thread \in Threads
                /\ last.invocations[k].ref = g_hl_callback
    /\ IsNotify => last.thread \in Threads
    /\ (IsRecognize \/ last.op = "nativeCreateGestureRecognizer") =>
          (last.attaches = 0 /\ last.detaches = 0)

\* with an Active landmarker and an Active recognizer side by side, a
\* recognize call has just run the gesture callback on the caller's thread
C18_Witness ==
    /\ IsRecognize /\ RanGestureCallback /\ last.returned
    /\ \E h \in 1..Len(hlEngine) : Live(hlEngine, h)
    /\ Live(grEngine, last.handle)
    /\ last.invocations[1].thread = "caller"

(* ------------------------------------------------------------------ *)
(* Per-frame failures (checked under Spec)                             *)
(* ------------------------------------------------------------------ *)
\* the step is a frame call on an Active session that failed: the image
\* was rejected, or the engine rejected the submit / the recognize
FailedDetectStep ==
    /\ last'.op = "nativeDetectAsync"
    /\ Live(hlEngine, last'.handle)
    /\ last'.image \in {"none", "freed"}
FailedRecognizeStep ==
    /\ last'.op = "nativeRecognizeGestureForVideo"
    /\ Live(grEngine, last'.handle)
    /\ last'.status # kMpOk
\* a valid frame on landmarker h is submitted to the engine
DetectSubmits(h) ==
    \E f \in SysFrames :
       /\ DetectAsync(h, SubmitTs, f, "ok", "ok")
       /\ Len(last'.engineCalls) = 1 /\ last'.engineCalls[1].live
       /\ pending'[h] = pending[h] + 1
\* a valid frame on recognizer h is recognized and its result delivered
RecognizeDelivers(h) ==
    \E ts \in Timestamps, f \in SysFrames, rep \in GrReports :
       /\ rep.status = kMpOk
       /\ RecognizeGestureForVideo(h, ts, f, "ok", rep, "ok")
       /\ last'.ret = JNI_TRUE
       /\ Len(last'.invocations) = 1 /\ last'.invocations[1].ts = ts

\* C19: a frame call on an Active session that fails (image rejected, or
\* the engine rejecting the submit / recognize) is absorbed: the inference
\* was called at most once, nothing is thrown and nothing faults, the
\* session stays Active with its handle and the callback registrations
\* unchanged, and a valid frame on the same session is then still submitted
\* (landmarks) or recognized and delivered (gestures).
C19_FrameFailureAbsorbed ==
    [][(FailedDetectStep \/ FailedRecognizeStep) =>
          /\ Len(last'.engineCalls) <= 1
          /\ ~last'.threw /\ last'.returned /\ crashed' = "no"
          /\ Len(last'.invocations) = 0
          /\ FailedRecognizeStep => last'.ret = JNI_FALSE
          /\ UNCHANGED << g_jvm, g_hl_callback, g_hl_onResult, g_gr_callback,
                          g_gr_onResult, globalRefs, hlEngine, grEngine,
                          pending, attached >>
          /\ \A h \in 1..MaxCreates :
                /\ (FailedDetectStep /\ h = last'.handle
                      /\ InFlight(pending) < MaxPending) =>
                      ENABLED DetectSubmits(h)
                /\ (FailedRecognizeStep /\ h = last'.handle
                      /\ GrRegistered) =>
                      ENABLED RecognizeDelivers(h)]_vars

\* an Active recognizer with its callback registered has just failed a
\* frame in the engine and returned JNI_FALSE
C19_Witness ==
    /\ IsRecognize /\ Live(grEngine, last.handle) /\ GrRegistered
    /\ last.status # kMpOk /\ Len(last.engineCalls) = 1
    /\ last.ret = JNI_FALSE /\ last.returned

====
